---- MODULE Spec2Model ----
(***************************************************************************)
(* Protected playback session manager of danielrj007/player.               *)
(*                                                                         *)
(* Two variants of the App component are modelled:                         *)
(*   "protected"  src/src/App.tsx       (access gate, beforeunload)        *)
(*   "shareable"  src/unnamed/part_000  (share link, entry restoration)    *)
(*                                                                         *)
(* JavaScript strings are sequences of UTF-16 code units (naturals).       *)
(* A blob URL returned by URL.createObjectURL is the index of the blob in  *)
(* revokeCalls, which counts the URL.revokeObjectURL calls made on it.     *)
(***************************************************************************)
EXTENDS Integers, Sequences, FiniteSets, TLC

VARIABLES
  variant,        \* which App component is running
  host,           \* "init" | "mounted" | "unmounted" | "closed"
  hostname,       \* window.location.hostname
  referrer,       \* document.referrer
  entry,          \* window.location.search on entry: [token, media]
  url,            \* the input field (url in App.tsx, mediaUrl in part_000)
  player,         \* PlayerState | null
  error,          \* the error message state
  isLoading,      \* the loading flag
  securityConfig, \* SecurityConfig (App.tsx)
  shareableLink,  \* ShareableLink | null (part_000)
  inflight,       \* loads suspended at `await fetch`, one record per closure
  nextReq,        \* number of the next load that reaches its fetch
  revokeCalls,    \* blob URL -> number of URL.revokeObjectURL calls on it
  overlap,        \* history: a load reached its fetch while another was pending
  unloads,        \* number of beforeunload events fired so far
  codec,          \* the last encodeUrl / decodeUrl evaluation
  video,          \* the <video> element behind videoRef | null
  controlsTimer,  \* the timeout held by controlsTimeoutRef, with its closure
  detachTimers,   \* pending timeouts started by handlePause
  fullscreenElement, \* document.fullscreenElement is set
  lastOp,         \* history: the last playback control used and its outcome
  sessions        \* history: blob URL -> the load that created it

\* the playback surface and its timers
playback == <<video, controlsTimer, detachTimers, fullscreenElement, lastOp>>

vars == <<variant, host, hostname, referrer, entry, url, player, error,
          isLoading, securityConfig, shareableLink, inflight, nextReq,
          revokeCalls, overlap, unloads, codec, video, controlsTimer,
          detachTimers, fullscreenElement, lastOp, sessions>>

----------------------------------------------------------------------------
(* Bounds of the model.                                                    *)

\* loads that may reach their fetch in one run
MaxLoads == 3
\* beforeunload events in one run
MaxUnloads == 2
\* timeouts started by handlePause that may be pending together
MaxDetachTimers == 2
\* length of the strings given to the codec
MaxCodecLen == 3

----------------------------------------------------------------------------
(* Strings.                                                                *)

\* String.prototype.startsWith
StartsWith(s, p) ==
  /\ Len(p) <= Len(s)
  /\ SubSeq(s, 1, Len(p)) = p

\* String.prototype.endsWith (the `$` anchor of a regex without the m flag)
EndsWith(s, p) ==
  /\ Len(p) <= Len(s)
  /\ SubSeq(s, Len(s) - Len(p) + 1, Len(s)) = p

\* String.prototype.includes
Includes(s, p) ==
  \E i \in 1..(Len(s) + 1) :
    /\ i + Len(p) - 1 <= Len(s)
    /\ SubSeq(s, i, i + Len(p) - 1) = p

\* the code units String.prototype.trim removes
WhiteSpace ==
  {9, 10, 11, 12, 13, 32, 160, 5760, 8232, 8233, 8239, 8287, 12288, 65279}
    \cup (8192..8202)

\* !s.trim()
IsBlank(s) == \A i \in 1..Len(s) : s[i] \in WhiteSpace

\* one code unit lower-cased (ASCII letters; the i flag of a non-unicode regex
\* never folds a non-ASCII unit onto an ASCII one)
LowerUnit(c) == IF c >= 65 /\ c <= 90 THEN c + 32 ELSE c

\* String.prototype.toLowerCase on the units of the model's alphabet
ToLowerCase(s) == [i \in 1..Len(s) |-> LowerUnit(s[i])]

\* "http"
HTTP == <<104, 116, 116, 112>>

----------------------------------------------------------------------------
(* Token codec: btoa / atob.                                               *)

\* a value returned, or an exception thrown
Ok(v) == [ok |-> TRUE, val |-> v]
Threw == [ok |-> FALSE, val |-> <<>>]

\* the base64 alphabet: index 0..63 -> code unit of A-Z a-z 0-9 + /
B64Char(i) ==
  IF i < 26 THEN 65 + i
  ELSE IF i < 52 THEN 97 + (i - 26)
  ELSE IF i < 62 THEN 48 + (i - 52)
  ELSE IF i = 62 THEN 43
  ELSE 47

\* code unit -> index 0..63, or -1 when the unit is not of the alphabet
B64Index(c) ==
  IF c >= 65 /\ c <= 90 THEN c - 65
  ELSE IF c >= 97 /\ c <= 122 THEN c - 97 + 26
  ELSE IF c >= 48 /\ c <= 57 THEN c - 48 + 52
  ELSE IF c = 43 THEN 62
  ELSE IF c = 47 THEN 63
  ELSE -1

\* base64 of a byte string, three bytes to four units, padded with "="
RECURSIVE B64Encode(_)
B64Encode(s) ==
  IF Len(s) = 0 THEN <<>>
  ELSE
    LET b1 == s[1]
        b2 == IF Len(s) >= 2 THEN s[2] ELSE 0
        b3 == IF Len(s) >= 3 THEN s[3] ELSE 0
        n  == b1 * 65536 + b2 * 256 + b3
        c1 == B64Char(n \div 262144)
        c2 == B64Char((n \div 4096) % 64)
        c3 == IF Len(s) >= 2 THEN B64Char((n \div 64) % 64) ELSE 61
        c4 == IF Len(s) >= 3 THEN B64Char(n % 64) ELSE 61
    IN  <<c1, c2, c3, c4>> \o
          (IF Len(s) > 3 THEN B64Encode(SubSeq(s, 4, Len(s))) ELSE <<>>)

\* window.btoa: InvalidCharacterError on a code unit above 0xFF
btoa(s) ==
  IF \E i \in 1..Len(s) : s[i] > 255 THEN Threw ELSE Ok(B64Encode(s))

\* ASCII whitespace, which atob strips before decoding
AsciiWhiteSpace == {9, 10, 12, 13, 32}

\* s without the units of a set
RECURSIVE Strip(_, _)
Strip(s, drop) ==
  IF Len(s) = 0 THEN <<>>
  ELSE (IF s[1] \in drop THEN <<>> ELSE <<s[1]>>) \o Strip(Tail(s), drop)

\* at most two trailing "=" removed when the length is a multiple of four
Unpad(s) ==
  IF Len(s) % 4 = 0 /\ Len(s) > 0 /\ s[Len(s)] = 61
  THEN IF s[Len(s) - 1] = 61
       THEN SubSeq(s, 1, Len(s) - 2)
       ELSE SubSeq(s, 1, Len(s) - 1)
  ELSE s

\* the bytes of an unpadded base64 string: 4 units -> 3 bytes, a tail of
\* 3 units -> 2 bytes, of 2 units -> 1 byte (the spare bits are dropped)
RECURSIVE B64Decode(_)
B64Decode(s) ==
  IF Len(s) < 2 THEN <<>>
  ELSE
    LET i1 == B64Index(s[1])
        i2 == B64Index(s[2])
        i3 == IF Len(s) >= 3 THEN B64Index(s[3]) ELSE 0
        i4 == IF Len(s) >= 4 THEN B64Index(s[4]) ELSE 0
        n  == i1 * 262144 + i2 * 4096 + i3 * 64 + i4
        o1 == <<n \div 65536>>
        o2 == IF Len(s) >= 3 THEN <<(n \div 256) % 256>> ELSE <<>>
        o3 == IF Len(s) >= 4 THEN <<n % 256>> ELSE <<>>
    IN  o1 \o o2 \o o3 \o
          (IF Len(s) > 4 THEN B64Decode(SubSeq(s, 5, Len(s))) ELSE <<>>)

\* window.atob (forgiving-base64 decode): InvalidCharacterError when, after
\* whitespace and padding are removed, the length is 1 mod 4 or a unit is not
\* of the alphabet
atob(s) ==
  LET t == Unpad(Strip(s, AsciiWhiteSpace))
  IN  IF Len(t) % 4 = 1 \/ \E i \in 1..Len(t) : B64Index(t[i]) = -1
      THEN Threw
      ELSE Ok(B64Decode(t))

\* encodeUrl: btoa(url), the exception propagates
encodeUrl(u) == btoa(u)

\* decodeUrl: atob(encodedUrl), any exception rethrown as Error('URL invalida')
decodeUrl(encodedUrl) == atob(encodedUrl)

----------------------------------------------------------------------------
(* Messages (accents dropped) and the null state.                          *)

NoError == ""
ErrEmpty == "Por favor, insira um URL"
ErrDomain == "Acesso negado: dominio nao autorizado"
ErrReferrer == "Acesso negado: referrer nao autorizado"
ErrInvalidLink == "Por favor, insira um link direto valido"
ErrBlob == "Erro ao criar blob protegido"
ErrEmptyShare == "Por favor, insira um URL valido"
ErrInvalidShare == "URL invalido"
ErrFetchShare == "Erro ao carregar midia"
ErrSharedLink == "Link compartilhado invalido"
\* message of the URIError decodeURIComponent throws
ErrURI == "URI malformed"
\* message of the InvalidCharacterError btoa throws
ErrBtoa == "InvalidCharacterError"

\* null, for player and shareableLink
null == [isNull |-> TRUE]

----------------------------------------------------------------------------
(* Access gate (App.tsx).                                                  *)

\* checkDomainSecurity with the enable test dropped
checkDomainSecurityAlwaysOn == hostname \in securityConfig.allowedDomains

\* checkDomainSecurity
checkDomainSecurity ==
  IF ~securityConfig.enableDomainCheck THEN TRUE
  ELSE hostname \in securityConfig.allowedDomains

\* checkReferrerSecurity with startsWith replaced by equality
checkReferrerSecurityExact ==
  IF ~securityConfig.enableReferrerCheck THEN TRUE
  ELSE IF referrer = <<>> /\ securityConfig.allowedReferrers # {} THEN FALSE
  ELSE \E allowed \in securityConfig.allowedReferrers : referrer = allowed

\* checkReferrerSecurity
checkReferrerSecurity ==
  IF ~securityConfig.enableReferrerCheck THEN TRUE
  ELSE IF referrer = <<>> /\ securityConfig.allowedReferrers # {} THEN FALSE
  ELSE \E allowed \in securityConfig.allowedReferrers :
         StartsWith(referrer, allowed)

----------------------------------------------------------------------------
(* Locator validation and naming.                                          *)

\* the alternatives of isValidDirectLink's regex, each with its leading dot
DirectLinkExtensions ==
  { <<46, 109, 112, 51>>,       \* .mp3
    <<46, 109, 112, 52>>,       \* .mp4
    <<46, 119, 97, 118>>,       \* .wav
    <<46, 111, 103, 103>>,      \* .ogg
    <<46, 119, 101, 98, 109>>,  \* .webm
    <<46, 102, 108, 97, 99>>,   \* .flac
    <<46, 109, 52, 97>>,        \* .m4a
    <<46, 97, 118, 105>>,       \* .avi
    <<46, 109, 111, 118>> }     \* .mov

\* isValidDirectLink: /\.(mp3|mp4|wav|ogg|webm|flac|m4a|avi|mov)$/i
isValidDirectLink(u) ==
  \E ext \in DirectLinkExtensions : EndsWith(ToLowerCase(u), ext)

\* validExtensions of isValidMediaUrl
validExtensions ==
  { <<46, 109, 112, 52>>,       \* .mp4
    <<46, 109, 112, 51>>,       \* .mp3
    <<46, 119, 101, 98, 109>>,  \* .webm
    <<46, 97, 118, 105>>,       \* .avi
    <<46, 109, 111, 118>>,      \* .mov
    <<46, 109, 107, 118>>,      \* .mkv
    <<46, 102, 108, 118>>,      \* .flv
    <<46, 119, 109, 118>>,      \* .wmv
    <<46, 109, 52, 118>> }      \* .m4v

\* "mediafire.com"
MediaFire == <<109, 101, 100, 105, 97, 102, 105, 114, 101, 46, 99, 111, 109>>
\* "drive.google.com"
GoogleDrive ==
  <<100, 114, 105, 118, 101, 46, 103, 111, 111, 103, 108, 101, 46, 99, 111, 109>>

\* isValidMediaUrl
isValidMediaUrl(u) ==
  /\ \E ext \in validExtensions : Includes(ToLowerCase(u), ext)
  /\ \/ Includes(u, MediaFire)
     \/ Includes(u, GoogleDrive)
     \/ StartsWith(u, HTTP)

\* the part of s after its last "/" (split('/') and the last element)
RECURSIVE LastPart(_)
LastPart(s) ==
  IF \E i \in 1..Len(s) : s[i] = 47 THEN LastPart(Tail(s)) ELSE s

\* the part of s before its first "?" (split('?')[0])
RECURSIVE BeforeQuery(_)
BeforeQuery(s) ==
  IF Len(s) = 0 \/ s[1] = 63 THEN <<>> ELSE <<s[1]>> \o BeforeQuery(Tail(s))

IsHex(c) ==
  \/ c >= 48 /\ c <= 57
  \/ c >= 65 /\ c <= 70
  \/ c >= 97 /\ c <= 102

\* decodeURIComponent: URIError on a "%" not followed by two hex digits; a
\* string without "%" is returned as it is (escapes are outside the alphabet
\* of the model's inputs)
decodeURIComponent(s) ==
  IF \E i \in 1..Len(s) :
       /\ s[i] = 37
       /\ ~(i + 2 <= Len(s) /\ IsHex(s[i + 1]) /\ IsHex(s[i + 2]))
  THEN Threw
  ELSE Ok(s)

\* extractFileName of App.tsx
extractFileName(u) == decodeURIComponent(BeforeQuery(LastPart(u)))

\* "Midia sem nome" (with its accent: code unit 237)
UnnamedMedia ==
  <<77, 237, 100, 105, 97, 32, 115, 101, 109, 32, 110, 111, 109, 101>>

\* extractFileName of part_000: fileName || 'Midia sem nome'
extractFileNameShare(u) ==
  LET r == decodeURIComponent(BeforeQuery(LastPart(u)))
  IN  IF r.ok /\ r.val = <<>> THEN Ok(UnnamedMedia) ELSE r

----------------------------------------------------------------------------
(* Sessions and blobs.                                                     *)

\* the PlayerState both variants install when a load succeeds (volume in
\* hundredths, the step of the volume slider: 100 is the source's 1)
NewPlayer(u, fileName, blobUrl) ==
  [ url |-> u, fileName |-> fileName, isPlaying |-> FALSE, currentTime |-> 0,
    duration |-> 0, volume |-> 100, isMuted |-> FALSE, isFullscreen |-> FALSE,
    showControls |-> TRUE, blobUrl |-> blobUrl ]

\* no src attribute on the element
NoSrc == 0

\* no timeout pending
NoTimer == [pending |-> FALSE, sawPlaying |-> FALSE]

\* the <video> element after React commits a session whose blobUrl prop is
\* new: the element is created on the first session and kept afterwards;
\* a new src starts the media load, which pauses the element and resets
\* its position (the element's volume is not a prop and stays)
Rendered(blobUrl) ==
  IF video = null
  THEN [src |-> blobUrl, paused |-> TRUE, volume |-> 100, currentTime |-> 0,
        duration |-> 0]
  ELSE [video EXCEPT !.src = blobUrl, !.paused = TRUE, !.currentTime = 0,
                     !.duration = 0]

\* the blob URLs created so far
Blobs == DOMAIN revokeCalls

\* the blob URLs never passed to URL.revokeObjectURL
Unreleased == {b \in Blobs : revokeCalls[b] = 0}

\* URL.revokeObjectURL(b), as the table of calls after it
Revoke(b) == [revokeCalls EXCEPT ![b] = @ + 1]

\* the player the unmount cleanup sees: the effect has no dependencies, so
\* its closure holds the player of the first render
unmountClosurePlayer == null

\* components whose state setters still act
Mounted == host = "mounted"

----------------------------------------------------------------------------
(* Inputs and the initial state.                                           *)

\* "http://a/v.mp4"
UrlV == <<104, 116, 116, 112, 58, 47, 47, 97, 47, 118, 46, 109, 112, 52>>
\* "http://a/w.mp3"
UrlW == <<104, 116, 116, 112, 58, 47, 47, 97, 47, 119, 46, 109, 112, 51>>
\* "http://a/x.txt"
UrlTxt == <<104, 116, 116, 112, 58, 47, 47, 97, 47, 120, 46, 116, 120, 116>>
\* "http://a/" U+2713 ".mp4": a name outside Latin-1
UrlCheckMark ==
  <<104, 116, 116, 112, 58, 47, 47, 97, 47, 10003, 46, 109, 112, 52>>
\* "http://a/%.mp4": a malformed escape
UrlPercent == <<104, 116, 116, 112, 58, 47, 47, 97, 47, 37, 46, 109, 112, 52>>
\* "aHR0cDovL2Evdi5tcDQ=": base64 of "http://a/v.mp4"
TokenV ==
  <<97, 72, 82, 48, 99, 68, 111, 118, 76, 50, 69, 118, 100, 105, 53, 116, 99,
    68, 81, 61>>

\* what the user may type into the input field
Inputs == {<<>>, UrlV, UrlW, UrlTxt, UrlCheckMark, UrlPercent, TokenV}

\* values generateToken may return (Math.random and Date.now decide)
MintedTokens == {"token-r1", "token-r2"}

\* the token and media parameters of the page's address on entry
EntryLinks ==
  { [token |-> "", media |-> <<>>],
    [token |-> "token-s", media |-> TokenV],
    [token |-> "", media |-> TokenV],
    [token |-> "token-s", media |-> <<33>>] }

\* useState<SecurityConfig>(...) of App.tsx; the three UI protection flags
\* take no part in a load
DefaultConfig ==
  [ allowedDomains |-> {"localhost", "127.0.0.1"},
    allowedReferrers |-> {},
    enableDomainCheck |-> FALSE,
    enableReferrerCheck |-> FALSE ]

\* the state of the component before its first effect runs
InitState ==
  /\ host = "init"
  /\ url = <<>>
  /\ player = null
  /\ error = NoError
  /\ isLoading = FALSE
  /\ shareableLink = null
  /\ inflight = {}
  /\ nextReq = 1
  /\ revokeCalls = <<>>
  /\ overlap = FALSE
  /\ unloads = 0
  /\ codec = [op |-> "none"]
  /\ video = null
  /\ controlsTimer = NoTimer
  /\ detachTimers = 0
  /\ fullscreenElement = FALSE
  /\ lastOp = [op |-> "none"]
  /\ sessions = <<>>

Init ==
  /\ variant \in {"protected", "shareable"}
  /\ hostname \in {"localhost", "b.com"}
  /\ referrer = <<>>
  /\ entry \in EntryLinks
  /\ variant = "protected" => entry = [token |-> "", media |-> <<>>]
  /\ securityConfig = DefaultConfig
  /\ InitState

----------------------------------------------------------------------------
(* Loading.                                                                *)

\* an early return with a message: nothing else changes
Reject(msg) ==
  /\ error' = msg
  /\ UNCHANGED <<isLoading, inflight, nextReq, overlap>>

\* an exception between setIsLoading(true) and the fetch: catch sets the
\* message, finally clears the flag
ThrowInTry(msg) ==
  /\ error' = msg
  /\ isLoading' = FALSE
  /\ UNCHANGED <<inflight, nextReq, overlap>>

\* setIsLoading(true) and the call of fetch, where the handler suspends; gate
\* records what the access gate said of this request ("none": never asked)
StartFetch(u, fileName, existingToken, gate) ==
  /\ error' = NoError
  /\ isLoading' = TRUE
  /\ inflight' = inflight \cup
       {[req |-> nextReq, url |-> u, fileName |-> fileName,
         token |-> existingToken, gate |-> gate, hung |-> FALSE]}
  /\ nextReq' = nextReq + 1
  /\ overlap' = (overlap \/ inflight # {})

\* decodedUrl whose catch block yields the empty string
decodedUrlNoFallback ==
  IF Includes(url, HTTP) THEN url
  ELSE IF decodeUrl(url).ok THEN decodeUrl(url).val
  ELSE <<>>

\* the locator handleLoadMedia goes on with: the input when it includes
\* "http", else its base64 decoding, else (decoding threw) the input again
decodedUrl ==
  IF Includes(url, HTTP) THEN url
  ELSE IF decodeUrl(url).ok THEN decodeUrl(url).val
  ELSE url

\* handleLoadMedia without its referrer test
handleLoadMediaSkipsReferrer ==
  IF IsBlank(url) THEN Reject(ErrEmpty)
  ELSE IF ~checkDomainSecurity THEN Reject(ErrDomain)
  ELSE IF ~isValidDirectLink(decodedUrl) THEN Reject(ErrInvalidLink)
  ELSE IF ~extractFileName(decodedUrl).ok THEN ThrowInTry(ErrURI)
  ELSE StartFetch(decodedUrl, extractFileName(decodedUrl).val, "", "allow")

\* handleLoadMedia up to its await
handleLoadMedia ==
  IF IsBlank(url) THEN Reject(ErrEmpty)
  ELSE IF ~checkDomainSecurity THEN Reject(ErrDomain)
  ELSE IF ~checkReferrerSecurity THEN Reject(ErrReferrer)
  ELSE IF ~isValidDirectLink(decodedUrl) THEN Reject(ErrInvalidLink)
  ELSE IF ~extractFileName(decodedUrl).ok THEN ThrowInTry(ErrURI)
  ELSE StartFetch(decodedUrl, extractFileName(decodedUrl).val, "", "allow")

\* loadMediaFromUrl up to its await
loadMediaFromUrl(u, existingToken) ==
  IF IsBlank(u) THEN Reject(ErrEmptyShare)
  ELSE IF ~isValidMediaUrl(u) THEN Reject(ErrInvalidShare)
  ELSE IF ~extractFileNameShare(u).ok THEN ThrowInTry(ErrURI)
  ELSE StartFetch(u, extractFileNameShare(u).val, existingToken, "none")

\* the load the button and the Enter key run
LoadFromInput ==
  /\ Mounted
  /\ nextReq <= MaxLoads
  /\ IF variant = "protected" THEN handleLoadMedia
     ELSE loadMediaFromUrl(url, "")
  /\ UNCHANGED <<variant, host, hostname, referrer, entry, url, player,
                 securityConfig, shareableLink, revokeCalls, unloads,
                 codec, playback, sessions>>

\* onClick of the load button, which is disabled while isLoading
ClickLoad ==
  /\ ~isLoading
  /\ LoadFromInput

\* handleKeyPress: the Enter key loads, any other key does nothing
handleKeyPress ==
  \E key \in {"Enter", "a"} :
    IF key = "Enter" THEN LoadFromInput ELSE UNCHANGED vars

\* the mount effect, were its catch block to go on with the media parameter
\* as it came
MountEffectLoadsUndecoded ==
  /\ host = "init"
  /\ host' = "mounted"
  /\ IF variant = "shareable" /\ entry.token # "" /\ entry.media # <<>>
     THEN LET decoded == IF atob(entry.media).ok THEN atob(entry.media).val
                         ELSE entry.media
          IN  /\ url' = decoded
              /\ loadMediaFromUrl(decoded, entry.token)
     ELSE UNCHANGED <<url, error, isLoading, inflight, nextReq, overlap>>
  /\ UNCHANGED <<variant, hostname, referrer, entry, player, securityConfig,
                 shareableLink, revokeCalls, unloads, codec, playback,
                 sessions>>

\* the mount effect: part_000 restores a shared link, App.tsx has none
MountEffect ==
  /\ host = "init"
  /\ host' = "mounted"
  /\ IF variant = "shareable" /\ entry.token # "" /\ entry.media # <<>>
     THEN IF atob(entry.media).ok
          THEN /\ url' = atob(entry.media).val
               /\ loadMediaFromUrl(atob(entry.media).val, entry.token)
          ELSE /\ error' = ErrSharedLink
               /\ UNCHANGED <<url, isLoading, inflight, nextReq, overlap>>
     ELSE UNCHANGED <<url, error, isLoading, inflight, nextReq, overlap>>
  /\ UNCHANGED <<variant, hostname, referrer, entry, player, securityConfig,
                 shareableLink, revokeCalls, unloads, codec, playback,
                 sessions>>

\* onChange of the input field with the text u
TypeUrl(u) ==
  /\ Mounted
  /\ url' = u
  /\ UNCHANGED <<variant, host, hostname, referrer, entry, player, error,
                 isLoading, securityConfig, shareableLink, inflight, nextReq,
                 revokeCalls, overlap, unloads, codec, playback, sessions>>

\* the user edits the input field
SetUrl == \E u \in Inputs : TypeUrl(u)

\* onChange of the "Verificar dominio autorizado" checkbox
ToggleDomainCheck ==
  /\ Mounted
  /\ variant = "protected"
  /\ securityConfig' =
       [securityConfig EXCEPT !.enableDomainCheck = ~securityConfig.enableDomainCheck]
  /\ UNCHANGED <<variant, host, hostname, referrer, entry, url, player, error,
                 isLoading, shareableLink, inflight, nextReq, revokeCalls,
                 overlap, unloads, codec, playback, sessions>>

\* the state setters of a resumed load act only on a mounted component
SetIfMounted(newPlayer, newError, newLink) ==
  IF Mounted
  THEN /\ player' = newPlayer
       /\ error' = newError
       /\ shareableLink' = newLink
       /\ isLoading' = FALSE
  ELSE UNCHANGED <<player, error, shareableLink, isLoading>>

\* the history entry of a blob: the load that created it, the token the
\* load was given and the token of the share link built for its session
\* ("" when no link was built)
Created(f, token) == [req |-> f.req, supplied |-> f.token, token |-> token]

\* existingToken || generateToken(), were it to mint in every case
ShareTokenAlwaysMinted(existingToken, minted) == minted

\* existingToken || generateToken(), with minted the value generateToken
\* would return
ShareToken(existingToken, minted) ==
  IF existingToken # "" THEN existingToken ELSE minted

\* createProtectedBlob resolves: the blob URL is created and the rest of the
\* try block runs, then finally
FetchOk ==
  /\ host \in {"mounted", "unmounted"}
  /\ \E f \in inflight :
       LET blobUrl == Len(revokeCalls) + 1
           session == NewPlayer(f.url, f.fileName, blobUrl)
       IN  /\ ~f.hung
           /\ inflight' = inflight \ {f}
           /\ revokeCalls' = Append(revokeCalls, 0)
           /\ IF variant = "protected"
              THEN /\ SetIfMounted(session, error, shareableLink)
                   /\ sessions' = Append(sessions, Created(f, ""))
              ELSE \E minted \in MintedTokens :
                     LET token == ShareToken(f.token, minted)
                     IN  IF btoa(f.url).ok
                         THEN /\ SetIfMounted(session, error,
                                   [token |-> token,
                                    media |-> btoa(f.url).val])
                              /\ sessions' = Append(sessions, Created(f, token))
                         ELSE /\ SetIfMounted(session, ErrBtoa, shareableLink)
                              /\ sessions' = Append(sessions, Created(f, ""))
           /\ video' = IF Mounted THEN Rendered(blobUrl) ELSE video
  /\ UNCHANGED <<variant, host, hostname, referrer, entry, url,
                 securityConfig, nextReq, overlap, unloads, codec,
                 controlsTimer, detachTimers, fullscreenElement, lastOp>>

\* the fetch of a load never responds: neither fetch nor the handler sets
\* a timeout or holds an AbortController, so the load stays suspended
FetchNeverResponds ==
  /\ host \in {"mounted", "unmounted"}
  /\ \E f \in inflight :
       /\ ~f.hung
       /\ inflight' = (inflight \ {f}) \cup {[f EXCEPT !.hung = TRUE]}
  /\ UNCHANGED <<variant, host, hostname, referrer, entry, url, player, error,
                 isLoading, securityConfig, shareableLink, nextReq,
                 revokeCalls, overlap, unloads, codec, playback, sessions>>

\* createProtectedBlob throws (response not ok, or the transport failed)
FetchFail ==
  /\ host \in {"mounted", "unmounted"}
  /\ \E f \in inflight :
       /\ ~f.hung
       /\ inflight' = inflight \ {f}
       /\ SetIfMounted(player,
            IF variant = "protected" THEN ErrBlob ELSE ErrFetchShare,
            shareableLink)
  /\ UNCHANGED <<variant, host, hostname, referrer, entry, url,
                 securityConfig, nextReq, revokeCalls, overlap, unloads,
                 codec, playback, sessions>>

----------------------------------------------------------------------------
(* Teardown.                                                               *)

\* what handleBeforeUnload does to the blobs
UnloadRevokes ==
  IF player # null THEN Revoke(player.blobUrl) ELSE revokeCalls

\* a beforeunload event after which the page stays (the navigation was
\* cancelled or became a download); App.tsx listens, part_000 does not
handleBeforeUnload ==
  /\ Mounted
  /\ variant = "protected"
  /\ unloads < MaxUnloads
  /\ unloads' = unloads + 1
  /\ revokeCalls' = UnloadRevokes
  /\ UNCHANGED <<variant, host, hostname, referrer, entry, url, player, error,
                 isLoading, securityConfig, shareableLink, inflight, nextReq,
                 overlap, codec, playback, sessions>>

\* the page is left: handleBeforeUnload runs a last time and the context
\* ends (part_000 registers no handler for it)
PageClose ==
  /\ Mounted
  /\ variant = "protected"
  /\ host' = "closed"
  /\ revokeCalls' = UnloadRevokes
  /\ UNCHANGED <<variant, hostname, referrer, entry, url, player, error,
                 isLoading, securityConfig, shareableLink, inflight, nextReq,
                 overlap, unloads, codec, playback, sessions>>

\* the component unmounts: the cleanup of the dependency-free effect runs
Unmount ==
  /\ Mounted
  /\ host' = "unmounted"
  /\ revokeCalls' =
       IF unmountClosurePlayer # null
       THEN Revoke(unmountClosurePlayer.blobUrl)
       ELSE revokeCalls
  /\ UNCHANGED <<variant, hostname, referrer, entry, url, player, error,
                 isLoading, securityConfig, shareableLink, inflight, nextReq,
                 overlap, unloads, codec, playback, sessions>>

----------------------------------------------------------------------------
(* Playback controls.  Each handler is the closure of the current render,   *)
(* so the `player` it reads is the state before its own setPlayer calls;    *)
(* positions are in seconds, volumes in hundredths.                         *)

\* everything but the session and the playback surface
loadState ==
  <<variant, host, hostname, referrer, entry, url, error, isLoading,
    securityConfig, shareableLink, inflight, nextReq, revokeCalls, overlap,
    unloads, codec, sessions>>

\* a record of the control just used
Op(name, outcome, arg) ==
  [ op |-> name, outcome |-> outcome, arg |-> arg,
    before |-> IF player = null THEN 0 ELSE player.volume,
    wasMuted |-> IF player = null THEN FALSE ELSE player.isMuted ]

\* a handler that returns at its first line
Ignored(name, arg) ==
  /\ lastOp' = Op(name, "ignored", arg)
  /\ UNCHANGED <<player, video, controlsTimer, detachTimers,
                 fullscreenElement>>

\* the timeout showControls (3000 ms) or onMouseLeave (1000 ms) stores in
\* controlsTimeoutRef after clearing the one held there; its callback reads
\* the isPlaying of the render that started it
StartControlsTimer == [pending |-> TRUE, sawPlaying |-> player.isPlaying]

\* the media element's clamp of an assigned position
Clamp(t, lo, hi) == IF t < lo THEN lo ELSE IF t > hi THEN hi ELSE t

\* togglePlayPause; pause() on a playing element fires `pause`, whose
\* listener handlePause starts a timeout that nothing cancels
togglePlayPause ==
  /\ Mounted
  /\ IF video = null \/ player = null
     THEN Ignored("togglePlay", 0)
     ELSE /\ IF player.isPlaying
             THEN /\ ~video.paused => detachTimers < MaxDetachTimers
                  /\ video' = [video EXCEPT !.paused = TRUE]
                  /\ detachTimers' =
                       IF video.paused THEN detachTimers ELSE detachTimers + 1
             ELSE /\ video' =
                       IF video.src = NoSrc
                       THEN [video EXCEPT !.src = player.blobUrl,
                                          !.paused = FALSE,
                                          !.currentTime = 0, !.duration = 0]
                       ELSE [video EXCEPT !.paused = FALSE]
                  /\ UNCHANGED detachTimers
          /\ player' = [player EXCEPT !.isPlaying = ~@, !.showControls = TRUE]
          /\ controlsTimer' = StartControlsTimer
          /\ lastOp' = Op("togglePlay",
                          IF ~player.isPlaying /\ video.src = NoSrc
                          THEN "reattached" ELSE "done", 0)
          /\ UNCHANGED fullscreenElement
  /\ UNCHANGED loadState

\* toggleMute, were muting to store the element's volume 0 in the session
toggleMuteStoresZero ==
  /\ Mounted
  /\ IF video = null \/ player = null
     THEN Ignored("toggleMute", 0)
     ELSE /\ video' = [video EXCEPT
                         !.volume = IF player.isMuted THEN player.volume ELSE 0]
          /\ player' = [player EXCEPT
                          !.isMuted = ~player.isMuted,
                          !.volume = IF player.isMuted THEN @ ELSE 0,
                          !.showControls = TRUE]
          /\ controlsTimer' = StartControlsTimer
          /\ lastOp' = Op("toggleMute", "done", 0)
          /\ UNCHANGED <<detachTimers, fullscreenElement>>
  /\ UNCHANGED loadState

\* toggleMute
toggleMute ==
  /\ Mounted
  /\ IF video = null \/ player = null
     THEN Ignored("toggleMute", 0)
     ELSE /\ video' = [video EXCEPT
                         !.volume = IF player.isMuted THEN player.volume ELSE 0]
          /\ player' = [player EXCEPT !.isMuted = ~player.isMuted,
                                      !.showControls = TRUE]
          /\ controlsTimer' = StartControlsTimer
          /\ lastOp' = Op("toggleMute", "done", 0)
          /\ UNCHANGED <<detachTimers, fullscreenElement>>
  /\ UNCHANGED loadState

\* handleVolumeChange without the assignment to the element's volume, which
\* is what throws on a value outside [0, 1]
handleVolumeChangeUnchecked(newVolume) ==
  /\ Mounted
  /\ IF video = null \/ player = null
     THEN Ignored("setVolume", newVolume)
     ELSE /\ player' = [player EXCEPT !.volume = newVolume,
                                      !.isMuted = (newVolume = 0),
                                      !.showControls = TRUE]
          /\ controlsTimer' = StartControlsTimer
          /\ lastOp' = Op("setVolume", "done", newVolume)
          /\ UNCHANGED <<video, detachTimers, fullscreenElement>>
  /\ UNCHANGED loadState

\* handleVolumeChange; HTMLMediaElement.volume throws IndexSizeError on a
\* value outside [0, 1], which ends the handler before its setPlayer
handleVolumeChange(newVolume) ==
  /\ Mounted
  /\ IF video = null \/ player = null
     THEN Ignored("setVolume", newVolume)
     ELSE IF newVolume < 0 \/ newVolume > 100
     THEN /\ lastOp' = Op("setVolume", "threw", newVolume)
          /\ UNCHANGED <<player, video, controlsTimer, detachTimers,
                         fullscreenElement>>
     ELSE /\ video' = [video EXCEPT !.volume = newVolume]
          /\ player' = [player EXCEPT !.volume = newVolume,
                                      !.isMuted = (newVolume = 0),
                                      !.showControls = TRUE]
          /\ controlsTimer' = StartControlsTimer
          /\ lastOp' = Op("setVolume", "done", newVolume)
          /\ UNCHANGED <<detachTimers, fullscreenElement>>
  /\ UNCHANGED loadState

\* getBoundingClientRect of the progress bar: its left edge and width (px)
BarLeft == 0
BarWidth == 100
\* half the width of the knob (w-4, translate-x-1/2), a child of the bar
\* that reaches past the end of the filled part
KnobHalf == 8

\* the width of the filled part of the progress bar, in px
Fill ==
  IF player.duration = 0 THEN 0
  ELSE Clamp((player.currentTime * BarWidth) \div player.duration, 0, BarWidth)

\* the clientX of a click whose currentTarget is the progress bar: a point
\* of the bar, or of the knob where it hangs over an end of the bar
ClickXs ==
  IF player = null THEN {BarLeft + BarWidth \div 2}
  ELSE {BarLeft, BarLeft + BarWidth \div 2, BarLeft + BarWidth}
         \cup (IF Fill = 0 THEN {BarLeft - KnobHalf} ELSE {})
         \cup (IF Fill = BarWidth THEN {BarLeft + BarWidth + KnobHalf}
               ELSE {})

\* handleSeek for a click at clientX
handleSeek(clientX) ==
  /\ Mounted
  /\ IF video = null \/ player = null
     THEN Ignored("seek", clientX)
     ELSE LET newTime == ((clientX - BarLeft) * player.duration) \div BarWidth
          IN  /\ video' = [video EXCEPT
                             !.currentTime = Clamp(newTime, 0, video.duration)]
              /\ player' = [player EXCEPT !.currentTime = newTime,
                                          !.showControls = TRUE]
              /\ controlsTimer' = StartControlsTimer
              /\ lastOp' = Op("seek", "done", clientX)
              /\ UNCHANGED <<detachTimers, fullscreenElement>>
  /\ UNCHANGED loadState

\* toggleFullscreen: playerRef is set exactly while a session is rendered;
\* a rejected request is caught and logged, and showControls runs either
\* way; an accepted one fires fullscreenchange, whose listener sets the
\* same isFullscreen
toggleFullscreen ==
  /\ Mounted
  /\ IF player = null
     THEN Ignored("toggleFullscreen", 0)
     ELSE \E granted \in BOOLEAN :
            /\ fullscreenElement' =
                 IF granted THEN ~fullscreenElement ELSE fullscreenElement
            /\ player' = [player EXCEPT
                            !.isFullscreen =
                              IF granted THEN ~fullscreenElement ELSE @,
                            !.showControls = TRUE]
            /\ controlsTimer' = StartControlsTimer
            /\ lastOp' = Op("toggleFullscreen",
                            IF granted THEN "done" ELSE "caught", 0)
            /\ UNCHANGED <<video, detachTimers>>
  /\ UNCHANGED loadState

\* handleTimeUpdate for the element v
handleTimeUpdate(v) ==
  IF player = null THEN null
  ELSE [player EXCEPT !.currentTime = v.currentTime, !.duration = v.duration]

\* the length of the media behind every blob of the model
MediaDurations == {100}

\* positions the element reports while it plays
MediaPositions == {0, 50, 100}

\* loadedmetadata: the element learns the duration of a blob that is still
\* registered; onLoadedMetadata is handleTimeUpdate
LoadedMetadata ==
  /\ Mounted
  /\ video # null
  /\ video.src # NoSrc
  /\ revokeCalls[video.src] = 0
  /\ video.duration = 0
  /\ \E d \in MediaDurations :
       LET v == [video EXCEPT !.duration = d]
       IN  /\ video' = v
           /\ player' = handleTimeUpdate(v)
  /\ UNCHANGED <<controlsTimer, detachTimers, fullscreenElement, lastOp>>
  /\ UNCHANGED loadState

\* timeupdate while the element plays
TimeUpdate ==
  /\ Mounted
  /\ video # null
  /\ ~video.paused
  /\ video.duration > 0
  /\ \E t \in MediaPositions :
       /\ t > video.currentTime
       /\ t <= video.duration
       /\ LET v == [video EXCEPT !.currentTime = t]
          IN  /\ video' = v
              /\ player' = handleTimeUpdate(v)
  /\ UNCHANGED <<controlsTimer, detachTimers, fullscreenElement, lastOp>>
  /\ UNCHANGED loadState

\* the seek the element runs after handleSeek ends with timeupdate, which
\* reports the element's own position
SeekedUpdate ==
  /\ Mounted
  /\ video # null
  /\ player # null
  /\ player.currentTime # video.currentTime
  /\ lastOp.op = "seek"
  /\ player' = handleTimeUpdate(video)
  /\ UNCHANGED <<video, controlsTimer, detachTimers, fullscreenElement,
                 lastOp>>
  /\ UNCHANGED loadState

\* the media reaches its end: the element pauses itself and fires `pause`;
\* no handler of the component hears of it but handlePause
Ended ==
  /\ Mounted
  /\ video # null
  /\ ~video.paused
  /\ video.duration > 0
  /\ video.currentTime = video.duration
  /\ detachTimers < MaxDetachTimers
  /\ video' = [video EXCEPT !.paused = TRUE]
  /\ detachTimers' = detachTimers + 1
  /\ UNCHANGED <<player, controlsTimer, fullscreenElement, lastOp>>
  /\ UNCHANGED loadState

\* onMouseMove of the player: showControls
onMouseMove ==
  /\ Mounted
  /\ player # null
  /\ player' = [player EXCEPT !.showControls = TRUE]
  /\ controlsTimer' = StartControlsTimer
  /\ UNCHANGED <<video, detachTimers, fullscreenElement, lastOp>>
  /\ UNCHANGED loadState

\* onMouseLeave of the player: only the timeout is restarted
onMouseLeave ==
  /\ Mounted
  /\ player # null
  /\ controlsTimer' = StartControlsTimer
  /\ UNCHANGED <<player, video, detachTimers, fullscreenElement, lastOp>>
  /\ UNCHANGED loadState

\* the timeout held by controlsTimeoutRef expires
ControlsTimerFires ==
  /\ Mounted
  /\ controlsTimer.pending
  /\ controlsTimer' = NoTimer
  /\ player' =
       IF controlsTimer.sawPlaying /\ player # null
       THEN [player EXCEPT !.showControls = FALSE]
       ELSE player
  /\ UNCHANGED <<video, detachTimers, fullscreenElement, lastOp>>
  /\ UNCHANGED loadState

\* handlePause's timeout, were it to revoke the blob it detaches
DetachTimerRevokes ==
  /\ Mounted
  /\ detachTimers > 0
  /\ detachTimers' = detachTimers - 1
  /\ video' =
       IF video # null /\ video.paused
       THEN [video EXCEPT !.src = NoSrc]
       ELSE video
  /\ revokeCalls' =
       IF video # null /\ video.paused /\ video.src # NoSrc
       THEN Revoke(video.src)
       ELSE revokeCalls
  /\ UNCHANGED <<player, controlsTimer, fullscreenElement, lastOp>>
  /\ UNCHANGED <<variant, host, hostname, referrer, entry, url, error,
                 isLoading, securityConfig, shareableLink, inflight, nextReq,
                 overlap, unloads, codec, sessions>>

\* one of handlePause's timeouts expires (1000 ms in App.tsx, 2000 ms in
\* part_000): a paused element loses its src attribute; the blob stays
DetachTimerFires ==
  /\ Mounted
  /\ detachTimers > 0
  /\ detachTimers' = detachTimers - 1
  /\ video' =
       IF video # null /\ video.paused
       THEN [video EXCEPT !.src = NoSrc]
       ELSE video
  /\ UNCHANGED <<player, controlsTimer, fullscreenElement, lastOp>>
  /\ UNCHANGED loadState

----------------------------------------------------------------------------
(* The codec applied to a locator.                                         *)

\* encodeUrl(url)
Encode ==
  /\ codec.op = "none"
  /\ codec' = [op |-> "encode", input |-> url, out |-> encodeUrl(url)]
  /\ UNCHANGED <<variant, host, hostname, referrer, entry, url, player, error,
                 isLoading, securityConfig, shareableLink, inflight, nextReq,
                 revokeCalls, overlap, unloads, playback, sessions>>

\* decodeUrl of what encodeUrl returned
Decode ==
  /\ codec.op = "encode"
  /\ codec.out.ok
  /\ codec' = [op |-> "decode", input |-> codec.input,
               out |-> decodeUrl(codec.out.val)]
  /\ UNCHANGED <<variant, host, hostname, referrer, entry, url, player, error,
                 isLoading, securityConfig, shareableLink, inflight, nextReq,
                 revokeCalls, overlap, unloads, playback, sessions>>

----------------------------------------------------------------------------
Next ==
  \/ MountEffect
  \/ SetUrl
  \/ ToggleDomainCheck
  \/ ClickLoad
  \/ handleKeyPress
  \/ FetchOk
  \/ FetchFail
  \/ handleBeforeUnload
  \/ PageClose
  \/ Unmount

Spec == Init /\ [][Next]_vars

----------------------------------------------------------------------------
(* The access gate over every policy and context: App.tsx with its          *)
(* SecurityConfig and the page's context drawn from bounded sets.           *)

\* "http://r/"
RefR == <<104, 116, 116, 112, 58, 47, 47, 114, 47>>
\* "http://r/p"
RefRP == <<104, 116, 116, 112, 58, 47, 47, 114, 47, 112>>
\* "http://q/"
RefQ == <<104, 116, 116, 112, 58, 47, 47, 113, 47>>

GateConfigs ==
  [ allowedDomains : SUBSET {"localhost", "a.com"},
    allowedReferrers : SUBSET {<<>>, RefR, RefRP},
    enableDomainCheck : BOOLEAN,
    enableReferrerCheck : BOOLEAN ]

GateInit ==
  /\ variant = "protected"
  /\ hostname \in {"localhost", "a.com", "b.com"}
  /\ referrer \in {<<>>, RefR, RefRP, RefQ}
  /\ entry = [token |-> "", media |-> <<>>]
  /\ securityConfig \in GateConfigs
  /\ InitState

\* one locator is typed, then loads are issued under the fixed policy
GateSetUrl ==
  /\ url = <<>>
  /\ error = NoError
  /\ nextReq = 1
  /\ SetUrl

GateNext ==
  \/ MountEffect
  \/ GateSetUrl
  \/ ClickLoad
  \/ handleKeyPress
  \/ FetchOk
  \/ FetchFail

GateSpec == GateInit /\ [][GateNext]_vars

----------------------------------------------------------------------------
(* The validity pre-check and the token fallback over a range of inputs.   *)

\* "http://a/V.MP4"
UrlUpper == <<104, 116, 116, 112, 58, 47, 47, 97, 47, 86, 46, 77, 80, 52>>
\* "http://a/v.mkv"
UrlMkv == <<104, 116, 116, 112, 58, 47, 47, 97, 47, 118, 46, 109, 107, 118>>
\* "http://a/v.wav"
UrlWav == <<104, 116, 116, 112, 58, 47, 47, 97, 47, 118, 46, 119, 97, 118>>
\* "http://a/v.mp4.txt"
UrlMp4Txt ==
  <<104, 116, 116, 112, 58, 47, 47, 97, 47, 118, 46, 109, 112, 52, 46,
    116, 120, 116>>
\* "a/v.mp4": no scheme, and not base64 (the dot)
RelV == <<97, 47, 118, 46, 109, 112, 52>>
\* "aHR0cDovL2Evdi5tcDQ": TokenV without its padding
TokenVUnpadded ==
  <<97, 72, 82, 48, 99, 68, 111, 118, 76, 50, 69, 118, 100, 105, 53, 116,
    99, 68, 81>>
\* "!!!!"
TokenBad == <<33, 33, 33, 33>>
\* "mediafire.com/v.mp4"
FireV ==
  <<109, 101, 100, 105, 97, 102, 105, 114, 101, 46, 99, 111, 109, 47, 118,
    46, 109, 112, 52>>

\* what the user may type into the input field
LinkInputs ==
  { UrlV, UrlUpper, UrlMkv, UrlWav, UrlTxt, UrlMp4Txt, RelV, TokenV,
    TokenVUnpadded, TokenBad, FireV }

LinkInit ==
  /\ variant \in {"protected", "shareable"}
  /\ hostname = "localhost"
  /\ referrer = <<>>
  /\ entry = [token |-> "", media |-> <<>>]
  /\ securityConfig = DefaultConfig
  /\ InitState

\* one text is typed, then loads of it are issued
LinkSetUrl ==
  /\ url = <<>>
  /\ error = NoError
  /\ nextReq = 1
  /\ \E u \in LinkInputs : TypeUrl(u)

LinkNext ==
  \/ MountEffect
  \/ LinkSetUrl
  \/ ClickLoad
  \/ handleKeyPress
  \/ FetchOk
  \/ FetchFail

LinkSpec == LinkInit /\ [][LinkNext]_vars

----------------------------------------------------------------------------
(* The playback controls, used with no session and on the session a load    *)
(* of "http://a/v.mp4" leaves.                                              *)

\* the values a change event of the volume slider may carry: three of the
\* slider's range, and one on each side of it
VolumeValues == {-10, 0, 50, 100, 110}

\* the component with no session
IdleState ==
  /\ url = <<>>
  /\ player = null
  /\ shareableLink = null
  /\ nextReq = 1
  /\ revokeCalls = <<>>
  /\ sessions = <<>>
  /\ video = null

\* the component after its first load, of "http://a/v.mp4", succeeded
ActiveState ==
  /\ url = UrlV
  /\ player = NewPlayer(UrlV, extractFileName(UrlV).val, 1)
  /\ shareableLink =
       IF variant = "protected" THEN null
       ELSE [token |-> "token-r1", media |-> TokenV]
  /\ nextReq = 2
  /\ revokeCalls = <<0>>
  /\ sessions =
       <<[ req |-> 1, supplied |-> "",
           token |-> IF variant = "protected" THEN "" ELSE "token-r1" ]>>
  /\ video = [src |-> 1, paused |-> TRUE, volume |-> 100, currentTime |-> 0,
              duration |-> 0]

ControlsInit ==
  /\ variant \in {"protected", "shareable"}
  /\ hostname = "localhost"
  /\ referrer = <<>>
  /\ entry = [token |-> "", media |-> <<>>]
  /\ securityConfig = DefaultConfig
  /\ host = "mounted"
  /\ error = NoError
  /\ isLoading = FALSE
  /\ inflight = {}
  /\ overlap = FALSE
  /\ unloads = 0
  /\ codec = [op |-> "none"]
  /\ controlsTimer = NoTimer
  /\ detachTimers = 0
  /\ fullscreenElement = FALSE
  /\ lastOp = [op |-> "none"]
  /\ (IdleState \/ ActiveState)

\* a change event of the volume slider
ChangeVolume == \E newVolume \in VolumeValues : handleVolumeChange(newVolume)

\* a click on the progress bar
ClickProgress == \E clientX \in ClickXs : handleSeek(clientX)

ControlsNext ==
  \/ togglePlayPause
  \/ toggleMute
  \/ ChangeVolume
  \/ ClickProgress
  \/ toggleFullscreen
  \/ LoadedMetadata
  \/ TimeUpdate
  \/ SeekedUpdate
  \/ Ended
  \/ onMouseMove
  \/ onMouseLeave
  \/ ControlsTimerFires
  \/ DetachTimerFires

ControlsSpec == ControlsInit /\ [][ControlsNext]_vars

----------------------------------------------------------------------------
(* The playback surface across loads: sessions follow one another while     *)
(* the element is played, paused and detached.                              *)

SurfaceInit ==
  /\ variant \in {"protected", "shareable"}
  /\ hostname = "localhost"
  /\ referrer = <<>>
  /\ entry = [token |-> "", media |-> <<>>]
  /\ securityConfig = DefaultConfig
  /\ InitState

\* the user types one of two locators while no load is pending
SurfaceSetUrl ==
  /\ ~isLoading
  /\ \E u \in {UrlV, UrlW} : u # url /\ TypeUrl(u)

SurfaceNext ==
  \/ MountEffect
  \/ SurfaceSetUrl
  \/ ClickLoad
  \/ handleKeyPress
  \/ FetchOk
  \/ FetchFail
  \/ togglePlayPause
  \/ DetachTimerFires
  \/ handleBeforeUnload

SurfaceSpec == SurfaceInit /\ [][SurfaceNext]_vars

----------------------------------------------------------------------------
(* Loads under a network that answers every request it has not dropped:     *)
(* each response is eventually delivered, a dropped request gets none.      *)

\* a response to a pending request arrives
FetchResponds == FetchOk \/ FetchFail

LiveNext ==
  \/ MountEffect
  \/ SurfaceSetUrl
  \/ ClickLoad
  \/ handleKeyPress
  \/ FetchOk
  \/ FetchFail
  \/ FetchNeverResponds

LiveSpec == SurfaceInit /\ [][LiveNext]_vars /\ WF_vars(FetchResponds)

----------------------------------------------------------------------------
(* Share links: built by a load, opened in a new tab, restored on entry.    *)

\* the bytes URLSearchParams leaves as they are when it serializes
FormSafe(c) ==
  \/ c >= 48 /\ c <= 57
  \/ c >= 65 /\ c <= 90
  \/ c >= 97 /\ c <= 122
  \/ c \in {42, 45, 46, 95}

\* an upper-case hexadecimal digit, and the value of a digit
HexDigit(n) == IF n < 10 THEN 48 + n ELSE 55 + n
HexValue(c) ==
  IF c <= 57 THEN c - 48 ELSE IF c <= 70 THEN c - 55 ELSE c - 87

\* searchParams.set(name, value) followed by toString(): the value as it
\* stands in the link (values of the model are ASCII)
RECURSIVE FormEncode(_)
FormEncode(v) ==
  IF v = <<>> THEN <<>>
  ELSE (IF v[1] = 32 THEN <<43>>
        ELSE IF FormSafe(v[1]) THEN <<v[1]>>
        ELSE <<37, HexDigit(v[1] \div 16), HexDigit(v[1] % 16)>>)
       \o FormEncode(Tail(v))

\* new URLSearchParams(window.location.search).get(name)
RECURSIVE FormDecode(_)
FormDecode(q) ==
  IF q = <<>> THEN <<>>
  ELSE IF q[1] = 43 THEN <<32>> \o FormDecode(Tail(q))
  ELSE IF q[1] = 37 /\ Len(q) >= 3 /\ IsHex(q[2]) /\ IsHex(q[3])
  THEN <<16 * HexValue(q[2]) + HexValue(q[3])>>
         \o FormDecode(SubSeq(q, 4, Len(q)))
  ELSE <<q[1]>> \o FormDecode(Tail(q))

\* openShareLink: window.open(shareableLink.url, '_blank'); the model goes
\* on with the component of the new tab, which starts afresh on that link
openShareLink ==
  /\ Mounted
  /\ variant = "shareable"
  /\ shareableLink # null
  /\ entry' = [ token |-> shareableLink.token,
                media |-> FormDecode(FormEncode(shareableLink.media)) ]
  /\ host' = "init"
  /\ url' = <<>>
  /\ player' = null
  /\ error' = NoError
  /\ isLoading' = FALSE
  /\ shareableLink' = null
  /\ inflight' = {}
  /\ nextReq' = 1
  /\ revokeCalls' = <<>>
  /\ overlap' = FALSE
  /\ video' = null
  /\ controlsTimer' = NoTimer
  /\ detachTimers' = 0
  /\ fullscreenElement' = FALSE
  /\ lastOp' = [op |-> "none"]
  /\ sessions' = <<>>
  /\ UNCHANGED <<variant, hostname, referrer, securityConfig, unloads, codec>>

\* links a visitor may arrive with
ShareEntries ==
  EntryLinks \cup
    { [token |-> "token-s", media |-> <<>>],
      [token |-> "token-s", media |-> TokenVUnpadded] }

ShareInit ==
  /\ variant = "shareable"
  /\ hostname = "localhost"
  /\ referrer = <<>>
  /\ entry \in ShareEntries
  /\ securityConfig = DefaultConfig
  /\ InitState

\* the user types a locator
ShareSetUrl == \E u \in {UrlV, UrlCheckMark} : u # url /\ TypeUrl(u)

ShareNext ==
  \/ MountEffect
  \/ ShareSetUrl
  \/ ClickLoad
  \/ handleKeyPress
  \/ FetchOk
  \/ FetchFail
  \/ openShareLink

ShareSpec == ShareInit /\ [][ShareNext]_vars

----------------------------------------------------------------------------
(* The codec over locators "http://a/<name>.mp4".                           *)

CodecAlphabet == {118, 233, 255, 10003}

CodecNames == UNION {[1..k -> CodecAlphabet] : k \in 0..MaxCodecLen}

\* "http://a/"
CodecPrefix == <<104, 116, 116, 112, 58, 47, 47, 97, 47>>
\* ".mp4"
CodecSuffix == <<46, 109, 112, 52>>

CodecInit ==
  /\ variant = "shareable"
  /\ hostname = "localhost"
  /\ referrer = <<>>
  /\ entry = [token |-> "", media |-> <<>>]
  /\ securityConfig = DefaultConfig
  /\ host = "mounted"
  /\ url \in {CodecPrefix \o name \o CodecSuffix : name \in CodecNames}
  /\ player = null
  /\ error = NoError
  /\ isLoading = FALSE
  /\ shareableLink = null
  /\ inflight = {}
  /\ nextReq = 1
  /\ revokeCalls = <<>>
  /\ overlap = FALSE
  /\ unloads = 0
  /\ codec = [op |-> "none"]
  /\ video = null
  /\ controlsTimer = NoTimer
  /\ detachTimers = 0
  /\ fullscreenElement = FALSE
  /\ lastOp = [op |-> "none"]
  /\ sessions = <<>>

CodecNext ==
  \/ Encode
  \/ Decode

CodecSpec == CodecInit /\ [][CodecNext]_vars

----------------------------------------------------------------------------
(* Properties of the resource handles (specification Spec).                *)

\* C1: after N >= 1 successful loads issued one after the other, exactly one
\* blob URL is unreleased (the session's) and every earlier one was revoked
\* exactly once.
SequentialLoadsLeaveOneHandle ==
  (Mounted /\ ~overlap /\ inflight = {} /\ unloads = 0 /\ Len(revokeCalls) >= 1)
    => /\ player # null
       /\ Unreleased = {player.blobUrl}
       /\ \A b \in Blobs \ Unreleased : revokeCalls[b] = 1

\* C2: a load issued while another load is suspended at its fetch is
\* rejected, so never more than one fetch is in flight.
SingleInFlightLoad == Cardinality(inflight) <= 1

\* C3: when a load is started over a live session the old session is released
\* before the new request is Loading: while a fetch is in flight the session
\* still installed holds no unreleased blob URL, and never are two blob URLs
\* unreleased together.
SupersededSessionReleased ==
  /\ (inflight # {} /\ player # null) => revokeCalls[player.blobUrl] >= 1
  /\ Cardinality(Unreleased) <= 1

\* C4: once the host context has ended (unmount or page unload) the blob URL
\* of the session it held has been revoked.
TeardownRevokesHandle ==
  (host \in {"unmounted", "closed"} /\ player # null)
    => revokeCalls[player.blobUrl] >= 1

\* C5: no blob URL is passed to URL.revokeObjectURL more than once.
NoDoubleRevoke == \A b \in Blobs : revokeCalls[b] <= 1

\* C6: every load suspended at its fetch passed an access gate that said
\* Allow for it.
FetchOnlyAfterGateAllow == \A f \in inflight : f.gate = "allow"

----------------------------------------------------------------------------
(* Properties of the access gate (specification GateSpec).                 *)

\* the handler ran at least once: it left a message or reached its fetch
LoadAttempted == error # NoError \/ nextReq > 1

\* a is a prefix of r
IsPrefix(a, r) ==
  /\ Len(a) <= Len(r)
  /\ \A i \in 1..Len(a) : a[i] = r[i]

\* the domain rule of the policy
DomainPolicyPasses ==
  \/ ~securityConfig.enableDomainCheck
  \/ hostname \in securityConfig.allowedDomains

\* the referrer rule of the policy
ReferrerPolicyPasses ==
  \/ ~securityConfig.enableReferrerCheck
  \/ /\ referrer # <<>>
     /\ \E a \in securityConfig.allowedReferrers : IsPrefix(a, referrer)

\* C7: a load of a non-blank input is denied with the domain message exactly
\* when the domain check is enabled and the page's host is not in
\* allowedDomains; a disabled check denies no host, whatever the list.
DomainCheckDecides ==
  (variant = "protected" /\ ~IsBlank(url) /\ LoadAttempted)
    => ((error = ErrDomain) <=> ~DomainPolicyPasses)

\* a load was denied for its domain
DomainDenied ==
  /\ error = ErrDomain
  /\ hostname = "b.com"
  /\ securityConfig.allowedDomains = {"localhost", "a.com"}

\* C8: a load that passed the domain check is denied with the referrer
\* message exactly when the referrer check is enabled and the referrer is
\* empty or has no entry of allowedReferrers as a prefix; an empty referrer
\* is denied for every non-empty list.
ReferrerCheckDecides ==
  (variant = "protected" /\ ~IsBlank(url) /\ LoadAttempted /\ DomainPolicyPasses)
    => /\ (error = ErrReferrer) <=> ~ReferrerPolicyPasses
       /\ ( /\ securityConfig.enableReferrerCheck
            /\ referrer = <<>>
            /\ securityConfig.allowedReferrers # {} ) => error = ErrReferrer

\* a referrer passed on a proper prefix
ReferrerPassedByPrefix ==
  /\ securityConfig.enableReferrerCheck
  /\ referrer = RefRP
  /\ securityConfig.allowedReferrers = {RefR}
  /\ nextReq > 1

\* C9: a load of a valid locator reaches its fetch exactly when the domain
\* rule and the referrer rule both pass, and with both checks disabled no
\* load is denied, whatever the context and the lists.
GateAllowsIffBothPass ==
  /\ (variant = "protected" /\ LoadAttempted /\ url \in {UrlV, UrlW})
       => ((nextReq > 1) <=> (DomainPolicyPasses /\ ReferrerPolicyPasses))
  /\ (~securityConfig.enableDomainCheck /\ ~securityConfig.enableReferrerCheck)
       => error \notin {ErrDomain, ErrReferrer}

\* a load passed both checks, both enabled
BothChecksPassed ==
  /\ securityConfig.enableDomainCheck
  /\ securityConfig.enableReferrerCheck
  /\ url = UrlV
  /\ nextReq > 1

----------------------------------------------------------------------------
(* Properties of the codec (specification CodecSpec).                      *)

\* C10: encodeUrl returns for every valid locator, and decodeUrl of what it
\* returned is the locator again.
CodecRoundTrip ==
  (codec.op # "none" /\ isValidDirectLink(codec.input))
    => /\ codec.out.ok
       /\ codec.op = "decode" => codec.out.val = codec.input

----------------------------------------------------------------------------
(* Properties of the token fallback and the validity pre-check             *)
(* (specification LinkSpec).                                               *)

\* the input is taken for a token and atob rejects it
Undecodable(u) == ~Includes(u, HTTP) /\ ~atob(u).ok

\* the locator a load of the input stands for: the input itself when it
\* holds "http" or cannot be decoded, else its decoding
Resolved ==
  IF Includes(url, HTTP) \/ ~atob(url).ok THEN url ELSE atob(url).val

\* u ends, whatever the case, in an extension of the set exts
HasEnding(u, exts) ==
  \E ext \in exts :
    /\ Len(ext) <= Len(u)
    /\ \A i \in 1..Len(ext) :
         ToLowerCase(<<u[Len(u) - Len(ext) + i]>>) = <<ext[i]>>

SupportedExtensions ==
  { <<46, 109, 112, 52>>,       \* .mp4
    <<46, 109, 112, 51>>,       \* .mp3
    <<46, 119, 101, 98, 109>>,  \* .webm
    <<46, 97, 118, 105>>,       \* .avi
    <<46, 109, 111, 118>>,      \* .mov
    <<46, 109, 107, 118>>,      \* .mkv
    <<46, 102, 108, 118>>,      \* .flv
    <<46, 119, 109, 118>>,      \* .wmv
    <<46, 109, 52, 118>>,       \* .m4v
    <<46, 119, 97, 118>>,       \* .wav
    <<46, 111, 103, 103>>,      \* .ogg
    <<46, 102, 108, 97, 99>>,   \* .flac
    <<46, 109, 52, 97>> }       \* .m4a

\* the locator begins with a transport scheme or has an allow-listed
\* hosting shape
RecognizedOrigin(u) ==
  \/ IsPrefix(HTTP, u)
  \/ Includes(u, MediaFire)
  \/ Includes(u, GoogleDrive)

\* the locator the pre-check of the running variant is given
Locator == IF variant = "protected" THEN Resolved ELSE url

\* C12: a load passes the validity pre-check, and so reaches its fetch, if
\* and only if its locator ends (case-insensitively) in one of the thirteen
\* supported extensions and begins with a recognized scheme or matches an
\* allow-listed hosting shape; a rejected locator starts no fetch and
\* leaves the session untouched.
LocatorAcceptedIffSupported ==
  (~IsBlank(url) /\ LoadAttempted) =>
    /\ nextReq > 1 <=>
         (HasEnding(Locator, SupportedExtensions) /\ RecognizedOrigin(Locator))
    /\ nextReq = 1 => (inflight = {} /\ player = null)

----------------------------------------------------------------------------
(* Properties of the playback controls (specification ControlsSpec).       *)

\* C13: a playback control (togglePlay, seek, setVolume, toggleMute,
\* toggleFullscreen) used while there is no session is rejected with a
\* reported error: it is not silently ignored.
NoSessionControlRejected ==
  (player = null /\ lastOp.op # "none") => error # NoError

\* C14: after a seek the position of the session lies within
\* [0, duration]; with a duration of 0 it stays where it was, at 0.
SeekKeepsPositionInRange ==
  (player # null /\ lastOp.op = "seek") =>
    /\ 0 <= player.currentTime
    /\ player.currentTime <= player.duration

\* the value of the last volume change lies outside [0, 1]
VolumeOutOfRange ==
  /\ lastOp.op = "setVolume"
  /\ (lastOp.arg < 0 \/ lastOp.arg > 100)

\* C15: a volume change to a value outside [0, 1] fails and leaves volume
\* and isMuted as they were, so the volume of a session, and of its element,
\* lies within [0, 1] in every reachable state.
VolumeStaysInRange ==
  /\ player # null => (0 <= player.volume /\ player.volume <= 100)
  /\ video # null => (0 <= video.volume /\ video.volume <= 100)
  /\ (player # null /\ VolumeOutOfRange) =>
       /\ lastOp.outcome # "done"
       /\ player.volume = lastOp.before
       /\ player.isMuted = lastOp.wasMuted

\* a change to 1.1 was refused on a session whose volume is 0.5
OutOfRangeVolumeRefused ==
  /\ player # null
  /\ VolumeOutOfRange
  /\ lastOp.arg = 110
  /\ player.volume = 50
  /\ ~player.isMuted

\* C16: setVolume(0) mutes without clearing the stored non-zero volume:
\* a toggleMute that follows it unmutes the session and brings back, as its
\* effective volume, the volume stored before the change to 0.
ZeroVolumeKeepsStoredVolume ==
  [][ ( /\ lastOp.op = "setVolume"
        /\ lastOp.arg = 0
        /\ lastOp.outcome = "done"
        /\ lastOp.before > 0
        /\ lastOp'.op = "toggleMute" )
      => ( /\ ~player'.isMuted
           /\ player'.volume = lastOp.before
           /\ video'.volume = lastOp.before ) ]_vars

\* C17: the controls go from visible to hidden only when the quiet-period
\* timer expires while the session is playing, so they are never hidden
\* while the session is paused.
ControlsHideOnlyWhilePlaying ==
  [][ (player # null /\ player.showControls /\ ~player'.showControls)
      => ( /\ controlsTimer.pending
           /\ ~controlsTimer'.pending
           /\ player.isPlaying ) ]_vars

\* C18: at most one timer of each kind is pending: controlsTimeoutRef
\* holds the one controls timer, and at most one of handlePause's timeouts
\* waits to detach the element.
SingleTimerPerKind == detachTimers <= 1

----------------------------------------------------------------------------
(* Properties of the playback surface (specification SurfaceSpec).         *)

SurfaceRefersToLiveHandle ==
  video # null =>
    \/ video.src = NoSrc
    \/ /\ player # null
       /\ video.src = player.blobUrl
       /\ revokeCalls[video.src] = 0

----------------------------------------------------------------------------
(* Share links.                                                             *)

\* the step in which the component mounts
MountStep == host = "init" /\ host' = "mounted"

\* the session on display was created by a load that was given a token
RestoredSession ==
  /\ player # null
  /\ sessions[player.blobUrl].supplied # ""

\* C21: on entry a restoration is started exactly when the link carries both
\* a token and a media parameter; every session created by a restoration
\* carries the token of the link, none is minted for it, and the share link
\* shown with a restored session carries that token.
RestorationKeepsToken ==
  /\ [][MountStep =>
          ((entry.token # "" /\ entry.media # <<>>)
             <=> (error' # NoError \/ inflight' # {}))]_vars
  /\ [](\A b \in DOMAIN sessions :
          sessions[b].supplied # "" =>
            /\ sessions[b].supplied = entry.token
            /\ sessions[b].token = entry.token)
  /\ [](RestoredSession =>
          /\ shareableLink # null
          /\ shareableLink.token = entry.token)

\* a restored session is on display with the token of the link it came from
RestoredSessionShown ==
  /\ RestoredSession
  /\ entry.token = "token-s"
  /\ shareableLink # null
  /\ shareableLink.token = "token-s"

\* C22: a session that a load installed has a share link whose media
\* parameter is the encoding of the session's locator, and a session restored
\* from a link has the locator that the link's media parameter decodes to.
ShareLinkRoundTrip ==
  (variant = "shareable" /\ player # null) =>
    /\ shareableLink # null
    /\ btoa(player.url).ok
    /\ shareableLink.media = btoa(player.url).val
    /\ RestoredSession => atob(entry.media) = Ok(player.url)

\* the link of the entry has both parameters and a media parameter that
\* atob refuses
UndecodableEntry ==
  /\ variant = "shareable"
  /\ entry.token # ""
  /\ entry.media # <<>>
  /\ ~atob(entry.media).ok

\* C23: entering by a link whose media parameter cannot be decoded reports
\* the invalid-link message and nothing else happens: no session, no fetch
\* started, no load counted, the loading flag false, the component mounted.
UndecodableLinkReported ==
  [][(MountStep /\ UndecodableEntry) =>
       /\ error' = ErrSharedLink
       /\ player' = null
       /\ shareableLink' = null
       /\ inflight' = {}
       /\ nextReq' = nextReq
       /\ ~isLoading'
       /\ sessions' = sessions]_vars

\* mounted on an undecodable link: the message is shown over the empty state
UndecodableLinkEntered ==
  /\ UndecodableEntry
  /\ Mounted
  /\ error = ErrSharedLink
  /\ player = null
  /\ nextReq = 1

----------------------------------------------------------------------------
(* Loads: errors, the loading flag, the order of responses.                 *)

\* C24: a step that reports an error leaves the session as it was and the
\* loading flag false; no step installs a session and reports an error.
LoadErrorLeavesSession ==
  [][(error' # error /\ error' # NoError) =>
       (player' = player /\ ~isLoading')]_vars

\* C25: whenever the loading flag is set it is cleared again later on, also
\* when a request gets no response.
LoadingEnds == isLoading ~> ~isLoading

\* the blob was created by a load that was given no token and minted one
FreshlyMinted(b) == sessions[b].supplied = "" /\ sessions[b].token # ""

\* C26: two sessions created by loads that were given no token never carry
\* the same minted token.
MintedTokensUnique ==
  \A a, b \in DOMAIN sessions :
    (a # b /\ FreshlyMinted(a) /\ FreshlyMinted(b)) =>
      sessions[a].token # sessions[b].token

\* C28: in the shareable variant a session on display comes with a share
\* link whose media parameter decodes to the session's locator, whatever
\* loads succeeded or failed before.
SessionMatchesShareLink ==
  (variant = "shareable" /\ Mounted /\ player # null) =>
    /\ shareableLink # null
    /\ atob(shareableLink.media) = Ok(player.url)

\* C29: the loading flag is true exactly while a fetch is in flight.
LoadingIffFetchPending == Mounted => (isLoading <=> inflight # {})

\* the load that created the session on display
InstalledReq == sessions[player.blobUrl].req

\* C30: once no load is in flight, the session on display is that of the
\* latest request among the loads that succeeded.
LatestRequestWins ==
  (Mounted /\ inflight = {} /\ player # null) =>
    \A b \in DOMAIN sessions : sessions[b].req <= InstalledReq

----------------------------------------------------------------------------
(* The detach timer.                                                        *)

\* a detach timer expires and takes the src attribute off the element
DetachStep ==
  /\ detachTimers' = detachTimers - 1
  /\ video # null
  /\ video.src # NoSrc
  /\ video' # null
  /\ video'.src = NoSrc

\* C27: the detach timer clears the element's src only when the element has
\* stayed paused for the whole delay since the latest pause. Every pause
\* starts a timer and the timers, all of one delay, expire in the order they
\* were started, so a timer still pending after the step belongs to a pause
\* younger than the delay: the step must leave none pending.
DetachOnlyAfterFullDelay == [][DetachStep => detachTimers' = 0]_vars

----------------------------------------------------------------------------
(* The session and the element.                                             *)

\* C31: the session's isPlaying is true exactly when the element is playing,
\* also after the element paused by itself, and the element is never without
\* its src while isPlaying is true.
PlayingAgreesWithSurface ==
  (player # null /\ video # null) =>
    /\ player.isPlaying <=> ~video.paused
    /\ player.isPlaying => video.src # NoSrc

\* toggleMute has just acted on a session
ToggleMuteStep ==
  /\ lastOp' # lastOp
  /\ lastOp'.op = "toggleMute"
  /\ lastOp'.outcome = "done"

\* C32: toggleMute on a session flips isMuted and leaves every other field
\* of the session but the controls' visibility as it was; when the control
\* used before it was toggleMute too, the session has the volume and the
\* isMuted it had before that first call.
ToggleMuteFlipsOnlyMuted ==
  [][ToggleMuteStep =>
       /\ player' = [player EXCEPT !.isMuted = ~@, !.showControls = TRUE]
       /\ (lastOp.op = "toggleMute" /\ lastOp.outcome = "done") =>
            /\ player'.isMuted = lastOp.wasMuted
            /\ player'.volume = lastOp.before]_vars

\* muted and unmuted again by toggleMute: the volume is the one stored
ToggledMuteTwice ==
  /\ player # null
  /\ lastOp.op = "toggleMute"
  /\ lastOp.outcome = "done"
  /\ lastOp.wasMuted
  /\ ~player.isMuted
  /\ player.volume = 50
  /\ video.volume = 50

====
